---- MODULE Spec2Model ----
(***************************************************************************)
(* A state-machine model of the reconnecting WebSocket client EasyWS       *)
(* (src/EasyWS.mts; EasyWsClient in the same file has the same logic over  *)
(* the browser WebSocket).  The transport socket, the host timers and the  *)
(* clock are the environment: a socket delivers its open / error / close   *)
(* notifications asynchronously, a timer callback runs at or after its due *)
(* time.  Every handler is one atomic action (single-threaded event loop). *)
(***************************************************************************)
EXTENDS Integers, Sequences, FiniteSets, TLC

\* ---------------------------------------------------------------- bounds
MaxTicks == 2
MaxSockets == 3
MaxQueue == 2
MaxCalls == 2
MaxConns == 3
MaxListeners == 3

\* ------------------------------------------------------ program constants
MsPerSecond == 1000
DefaultReconnectIntervalSeconds == 30
DefaultMessageMaxQueueSeconds == 0
DefaultTimeoutMs == 1000

\* The clock advances in steps of one second.
ClockStepMs == MsPerSecond
MaxTimeMs == MaxTicks * ClockStepMs

\* An option that was left out of IEasyWSOptions.
Undefined == 0 - 1

\* ------------------------------------------------------------ input sets
\* Bodies handed to send(): a string, or a non-string value (a number).
Bodies == { [type |-> "string", str |-> "m", num |-> 0],
            [type |-> "number", str |-> "", num |-> 1] }
CallBodies == { b \in Bodies : b.type = "number" }
NoBody == [type |-> "none", str |-> "", num |-> 0]
Nonces == {"", "id1"}
Values == {"v1", "v2"}
TimeoutChoices == {DefaultTimeoutMs}
Absent == "undefined"

VARIABLES
    options,                  \* _options: the configuration surface
    now,                      \* Date.now() / the timers' clock, in ms
    socks,                    \* every WebSocket created so far, by creation order
    socket,                   \* _socket: index into socks, 0 = undefined
    connected,                \* _connected
    messageQueue,             \* _messageQueue: sequence of QueueItem
    intervals,                \* armed setInterval timers: set of [h, due]
    reconnectIntervalHandle,  \* _reconnectIntervalHandle: 0 = undefined
    resolverQueue,            \* _resolverQueue: nonce -> call (the resolver of that call)
    timeouts,                 \* pending setTimeout callbacks of registerResolver
    calls,                    \* history: every sendMessageWithPromise call and what its resolver received
    enqueued,                 \* history: the sends made while not connected since the last flush
    last,                     \* the event handled last and what it put on the wire
    conns,                    \* server: every upgraded connection, by acceptance order
    sessions,                 \* server: _sessions, its entries in insertion order
    srvLast,                  \* server: the call or event handled last and its outcome
    srvOptions,               \* server: _options (keepAlive)
    listeners,                \* server: every Deno.serve listener started so far
    server,                   \* server: _server, index into listeners, 0 = undefined
    shouldShutDown,           \* server: _shouldShutDown
    tasks                     \* server: the start/restart/shutdown calls suspended at an await

vars == << options, now, socks, socket, connected, messageQueue, intervals,
           reconnectIntervalHandle, resolverQueue, timeouts, calls, enqueued, last,
           conns, sessions, srvLast, srvOptions, listeners, server, shouldShutDown,
           tasks >>

\* ------------------------------------------------------------- helpers
\* a ?? b
Nullish(a, b) == IF a = Undefined THEN b ELSE a

DigitStr(n) == CASE n = 0 -> "0" [] n = 1 -> "1" [] n = 2 -> "2" [] OTHER -> "9"

\* JSON.stringify of a non-string body
JSONStringify(body) ==
    CASE body.type = "number" -> DigitStr(body.num)
      [] body.type = "null"   -> "null"
      [] OTHER                -> "{}"

\* send(): if(typeof body !== 'string') body = JSON.stringify(body)
Serialize(body) == IF body.type # "string" THEN JSONStringify(body) ELSE body.str

\* The record kept in last: the event, its arguments, the payloads it handed to an
\* open socket, the queue entries a flush skipped, whether socket.send threw.
Ev(op) ==
    [op |-> op, sock |-> 0, nonce |-> "", body |-> NoBody, value |-> Absent,
     sent |-> << >>, dropped |-> 0, threw |-> FALSE]
SockEv(op, s) == [Ev(op) EXCEPT !.sock = s]

\* The record kept in srvLast: the call or notification, the session id handed
\* to disconnectSession or to a callback, the boolean or the count returned, the
\* response status of a refused request, whether the call threw, and for a
\* callback the connection it came from and the subprotocols it carried; for a
\* lifecycle step the listener it is about (conn), whether it called restart()
\* (ok) and the events it reported through onServerEvent.
SrvEv(op) ==
    [op |-> op, id |-> 0, ok |-> FALSE, count |-> 0, status |-> 0, threw |-> FALSE,
     conn |-> 0, subProtocols |-> << >>, events |-> << >>]

\* new WebSocket(url); opened and errored record the notifications delivered so far
NewSocket ==
    [state |-> "CONNECTING", closeCalled |-> FALSE, opened |-> FALSE, errored |-> FALSE]

\* CloseSock where a second close() forces a closing socket to closed
CloseSockForcing(sk, s) ==
    IF s = 0 THEN sk
    ELSE [sk EXCEPT ![s] = [@ EXCEPT !.closeCalled = TRUE,
                                     !.state = IF @ \in {"CONNECTING", "OPEN"}
                                               THEN "CLOSING" ELSE "CLOSED"]]

\* socket?.close(): a no-op on undefined, on a closing and on a closed socket
CloseSock(sk, s) ==
    IF s = 0 THEN sk
    ELSE [sk EXCEPT ![s] = [@ EXCEPT !.closeCalled = TRUE,
                                     !.state = IF @ \in {"CONNECTING", "OPEN"}
                                               THEN "CLOSING" ELSE @]]

\* ConnectSocks without closing the previous socket
ConnectSocksKeepOld(sk, s) == Append(sk, NewSocket)

\* connect(): close the previous socket, create a new one
ConnectSocks(sk, s) == Append(CloseSock(sk, s), NewSocket)
CanConnect == Len(socks) < MaxSockets

\* clearInterval(handle)
ClearInterval(iv, h) == { t \in iv : t.h # h }
\* StopConnectLoop clearing nothing
StopConnectLoopForgetting(iv, h) == iv

\* stopConnectLoop()
StopConnectLoop(iv, h) == ClearInterval(iv, h)

FreshHandle(iv) == CHOOSE h \in 1..(Cardinality(iv) + 1) : \A t \in iv : t.h # h

ReconnectIntervalMs ==
    Nullish(options.reconnectIntervalSeconds, DefaultReconnectIntervalSeconds) * MsPerSecond

\* SetInterval arming nothing
SetIntervalNever(iv, h) == iv

\* setInterval(connect, ms): a new armed timer, first due one period from now
SetInterval(iv, h) == iv \cup { [h |-> h, due |-> now + ReconnectIntervalMs] }

\* startConnectLoop(): stop, then arm a new interval and keep its handle
StartedIntervals(iv, h) ==
    SetInterval(StopConnectLoop(iv, h), FreshHandle(StopConnectLoop(iv, h)))
StartedHandle(iv, h) == FreshHandle(StopConnectLoop(iv, h))

\* What socket.send(text) does on socket s: "sent" on an open socket, "throw"
\* while it is still connecting, "drop" once it is closing or closed, "none"
\* when _socket is undefined (optional chaining).
SocketSend(sk, s) ==
    IF s = 0 THEN "none"
    ELSE CASE sk[s].state = "OPEN"       -> "sent"
           [] sk[s].state = "CONNECTING" -> "throw"
           [] OTHER                      -> "drop"

QueueItem(time, message) == [time |-> time, message |-> message]

\* onOpen: maxTime = (messageMaxQueueSeconds ?? 0) * 1000
MaxTime == Nullish(options.messageMaxQueueSeconds, DefaultMessageMaxQueueSeconds) * MsPerSecond

\* Replayed with the age test made strict
ReplayedStrict(item, maxTime, t) == maxTime = 0 \/ (t - item.time) < maxTime

\* onOpen: the test that lets a queued item through
Replayed(item, maxTime, t) == maxTime = 0 \/ (t - item.time) <= maxTime

\* onOpen: for(const item of _messageQueue) if(...) _socket.send(item.message)
RECURSIVE FlushLoop(_, _, _, _)
FlushLoop(queue, i, maxTime, t) ==
    IF i > Len(queue) THEN << >>
    ELSE (IF Replayed(queue[i], maxTime, t) THEN << queue[i].message >> ELSE << >>)
         \o FlushLoop(queue, i + 1, maxTime, t)

ListenerUnchanged == UNCHANGED << srvOptions, listeners, server, shouldShutDown, tasks >>
ServerUnchanged == UNCHANGED << conns, sessions, srvLast >> /\ ListenerUnchanged
\* a step of the client leaves its configuration, the clock and the server alone
ClientUnchanged == UNCHANGED << options, now >> /\ ServerUnchanged
CallsUnchanged == UNCHANGED << resolverQueue, timeouts, calls >>
QueueUnchanged == UNCHANGED << messageQueue, enqueued >>
ConnUnchanged == UNCHANGED << socks, socket, connected, intervals, reconnectIntervalHandle >>

\* ---------------------------------------------------------------- Init
OptionSets ==
    [ messageQueueing : BOOLEAN,
      messageMaxQueueSeconds : {Undefined, 0, 1},
      reconnectIntervalSeconds : {Undefined, 1} ]

\* new Deno.serve listener; cause is who asked it to shut down: "" nobody,
\* "shutdown" or "restart" the application's call, "keepAlive" the restart()
\* that a finished callback made;
\* notified whether its finished callback has run
NewListener == [state |-> "listening", cause |-> "", notified |-> FALSE]

ServerOptionSets == [keepAlive : BOOLEAN]

\* The client and the server after construction: the server's constructor has
\* called start(), which found no _server and started the first listener.
InitOf(opts, serverOpts) ==
    /\ srvOptions \in serverOpts
    /\ listeners = << NewListener >>
    /\ server = 1
    /\ shouldShutDown = FALSE
    /\ tasks = {}
    /\ options \in opts
    /\ now = 0
    /\ socks = << >>
    /\ socket = 0
    /\ connected = FALSE
    /\ messageQueue = << >>
    /\ intervals = {}
    /\ reconnectIntervalHandle = 0
    /\ resolverQueue = << >>
    /\ timeouts = {}
    /\ calls = << >>
    /\ enqueued = << >>
    /\ last = Ev("new")
    /\ conns = << >>
    /\ sessions = << >>
    /\ srvLast = SrvEv("new")

\* keepAlive plays no part where the listener stays up
InitWith(opts) == InitOf(opts, { o \in ServerOptionSets : ~o.keepAlive })

Init == InitWith({ o \in OptionSets : o.reconnectIntervalSeconds # Undefined })

\* ------------------------------------------------------------- actions
\* init(): startConnectLoop(true)
InitCall ==
    /\ CanConnect
    /\ intervals' = StartedIntervals(intervals, reconnectIntervalHandle)
    /\ reconnectIntervalHandle' = StartedHandle(intervals, reconnectIntervalHandle)
    /\ socks' = ConnectSocks(socks, socket)
    /\ socket' = Len(socks')
    /\ last' = SockEv("init", socket')
    /\ UNCHANGED << connected >>
    /\ ClientUnchanged /\ CallsUnchanged /\ QueueUnchanged

\* Enqueue without the messageQueueing test
EnqueueAlways(queue, text) == Append(queue, QueueItem(now, text))

\* The queue after send(body) took its not-connected branch.
Enqueue(queue, text) ==
    IF options.messageQueueing THEN Append(queue, QueueItem(now, text)) ELSE queue

\* The part of send(body) shared with sendMessageWithPromise.
SendEffect(body, op, nonce) ==
    LET text == Serialize(body)
        how == IF connected THEN SocketSend(socks, socket) ELSE "none"
    IN /\ messageQueue' = IF connected THEN messageQueue ELSE Enqueue(messageQueue, text)
       /\ enqueued' = IF ~connected /\ options.messageQueueing
                      THEN Append(enqueued, QueueItem(now, text)) ELSE enqueued
       /\ last' = [Ev(op) EXCEPT !.sock = socket, !.nonce = nonce, !.body = body,
                                 !.sent = IF how = "sent" THEN << text >> ELSE << >>,
                                 !.threw = (how = "throw")]

\* send(body)
Send(body) ==
    /\ Len(messageQueue) < MaxQueue
    /\ SendEffect(body, "send", "")
    /\ ClientUnchanged /\ CallsUnchanged /\ ConnUnchanged

\* reconnect()
Reconnect ==
    /\ CanConnect
    /\ socks' = ConnectSocks(CloseSock(socks, socket), socket)
    /\ socket' = Len(socks')
    /\ last' = SockEv("reconnect", socket')
    /\ UNCHANGED << connected, intervals, reconnectIntervalHandle >>
    /\ ClientUnchanged /\ CallsUnchanged /\ QueueUnchanged

\* Disconnect that also stops the connect loop
DisconnectStoppingLoop ==
    /\ socks' = CloseSock(socks, socket)
    /\ last' = SockEv("disconnect", socket)
    /\ intervals' = StopConnectLoop(intervals, reconnectIntervalHandle)
    /\ UNCHANGED << socket, connected, reconnectIntervalHandle >>
    /\ ClientUnchanged /\ CallsUnchanged /\ QueueUnchanged

\* disconnect()
Disconnect ==
    /\ socks' = CloseSock(socks, socket)
    /\ last' = SockEv("disconnect", socket)
    /\ UNCHANGED << socket, connected, intervals, reconnectIntervalHandle >>
    /\ ClientUnchanged /\ CallsUnchanged /\ QueueUnchanged

\* The interval callback of startConnectLoop: connect()
ReconnectTick(t) ==
    /\ t \in intervals
    /\ now >= t.due
    /\ CanConnect
    /\ intervals' = (intervals \ {t}) \cup { [h |-> t.h, due |-> now + ReconnectIntervalMs] }
    /\ socks' = ConnectSocks(socks, socket)
    /\ socket' = Len(socks')
    /\ last' = SockEv("tick", socket')
    /\ UNCHANGED << connected, reconnectIntervalHandle >>
    /\ ClientUnchanged /\ CallsUnchanged /\ QueueUnchanged

\* OnOpen that sends the queue and keeps it
OnOpenKeepingQueue(s) ==
    /\ s \in 1..Len(socks)
    /\ socks[s].state = "CONNECTING"
    /\ LET sk == [socks EXCEPT ![s] = [@ EXCEPT !.state = "OPEN", !.opened = TRUE]]
           out == FlushLoop(messageQueue, 1, MaxTime, now)
           how == SocketSend(sk, socket)
       IN /\ socks' = sk
          /\ last' = [SockEv("onOpen", s) EXCEPT
                         !.sent = IF how = "sent" THEN out ELSE << >>,
                         !.dropped = Len(messageQueue) - Len(out),
                         !.threw = (out # << >> /\ how = "throw")]
    /\ connected' = TRUE
    /\ intervals' = StopConnectLoop(intervals, reconnectIntervalHandle)
    /\ UNCHANGED << socket, reconnectIntervalHandle >>
    /\ ClientUnchanged /\ CallsUnchanged /\ QueueUnchanged

\* Socket s delivers its open notification: onOpen
OnOpen(s) ==
    /\ s \in 1..Len(socks)
    /\ socks[s].state = "CONNECTING"
    /\ LET sk == [socks EXCEPT ![s] = [@ EXCEPT !.state = "OPEN", !.opened = TRUE]]
           out == FlushLoop(messageQueue, 1, MaxTime, now)
           how == SocketSend(sk, socket)
       IN /\ socks' = sk
          /\ last' = [SockEv("onOpen", s) EXCEPT
                         !.sent = IF how = "sent" THEN out ELSE << >>,
                         !.dropped = Len(messageQueue) - Len(out),
                         !.threw = (out # << >> /\ how = "throw")]
    /\ connected' = TRUE
    /\ intervals' = StopConnectLoop(intervals, reconnectIntervalHandle)
    /\ messageQueue' = IF last'.threw THEN messageQueue ELSE << >>
    /\ enqueued' = IF last'.threw THEN enqueued ELSE << >>
    /\ UNCHANGED << socket, reconnectIntervalHandle >>
    /\ ClientUnchanged /\ CallsUnchanged

\* Socket s delivers its close notification: onClose
OnClose(s) ==
    /\ s \in 1..Len(socks)
    /\ socks[s].state \in {"OPEN", "CLOSING"}
    /\ socks' = [socks EXCEPT ![s].state = "CLOSED"]
    /\ connected' = FALSE
    /\ intervals' = StartedIntervals(intervals, reconnectIntervalHandle)
    /\ reconnectIntervalHandle' = StartedHandle(intervals, reconnectIntervalHandle)
    /\ last' = SockEv("onClose", s)
    /\ UNCHANGED << socket >>
    /\ ClientUnchanged /\ CallsUnchanged /\ QueueUnchanged

\* Socket s delivers an error notification: onError.  The failing socket is
\* no longer open when its handler runs; its close notification follows.
OnError(s) ==
    /\ s \in 1..Len(socks)
    /\ socks[s].state \in {"CONNECTING", "OPEN", "CLOSING"}
    /\ ~socks[s].errored
    /\ socks' = CloseSock([socks EXCEPT ![s] = [@ EXCEPT !.state = "CLOSING",
                                                         !.errored = TRUE]], socket)
    /\ intervals' = StartedIntervals(intervals, reconnectIntervalHandle)
    /\ reconnectIntervalHandle' = StartedHandle(intervals, reconnectIntervalHandle)
    /\ last' = SockEv("onError", s)
    /\ UNCHANGED << socket, connected >>
    /\ ClientUnchanged /\ CallsUnchanged /\ QueueUnchanged

\* Socket s delivers a message: onMessage only forwards it to the callback
OnMessage(s) ==
    /\ s \in 1..Len(socks)
    /\ socks[s].state = "OPEN"
    /\ last' = SockEv("onMessage", s)
    /\ ClientUnchanged /\ CallsUnchanged /\ QueueUnchanged /\ ConnUnchanged

\* Time passes: the event loop runs the timers that are due before the clock
\* moves on by another step.
Advance ==
    /\ now < MaxTimeMs
    /\ \A t \in timeouts : t.due > now
    /\ \A t \in intervals : t.due > now
    /\ now' = now + ClockStepMs
    /\ last' = Ev("advance")
    /\ UNCHANGED options
    /\ ServerUnchanged
    /\ CallsUnchanged /\ QueueUnchanged /\ ConnUnchanged

\* RegisterResolver that keeps a resolver already stored for the nonce
RegisterResolverKeepFirst(rq, nonce, call) ==
    IF nonce \in DOMAIN rq THEN rq
    ELSE [n \in (DOMAIN rq) \cup {nonce} |-> IF n = nonce THEN call ELSE rq[n]]

\* registerResolver(nonce, resolver, timeoutMs): the registry after set(nonce, resolver)
RegisterResolver(rq, nonce, call) ==
    [n \in (DOMAIN rq) \cup {nonce} |-> IF n = nonce THEN call ELSE rq[n]]

\* registerResolver: the setTimeout it leaves behind (the callback captures the nonce)
ResolverTimer(nonce, call, timeoutMs) ==
    [nonce |-> nonce, due |-> now + timeoutMs, call |-> call]

\* delete(nonce) left out
DeleteResolverForgotten(rq, nonce) == rq

\* _resolverQueue.delete(nonce)
DeleteResolver(rq, nonce) == [n \in (DOMAIN rq) \ {nonce} |-> rq[n]]

\* Invoke that passes undefined whatever the result
InvokeWithoutResult(cs, c, result) == [cs EXCEPT ![c].results = Append(@, Absent)]

\* The resolver of call c is invoked with result
Invoke(cs, c, result) == [cs EXCEPT ![c].results = Append(@, result)]

\* sendMessageWithPromise(body, nonce, timeoutMs): the promise executor registers
\* the resolver and then sends; a throw inside the executor rejects the promise.
SendMessageWithPromise(body, nonce, timeoutMs) ==
    /\ Len(calls) < MaxCalls
    /\ Len(messageQueue) < MaxQueue
    /\ now + timeoutMs <= MaxTimeMs
    /\ LET c == Len(calls) + 1
       IN /\ resolverQueue' = RegisterResolver(resolverQueue, nonce, c)
          /\ timeouts' = timeouts \cup { ResolverTimer(nonce, c, timeoutMs) }
          /\ SendEffect(body, "sendMessageWithPromise", nonce)
          /\ calls' = Append(calls, [nonce |-> nonce, at |-> now, timeoutMs |-> timeoutMs,
                                     results |-> << >>, rejected |-> last'.threw])
    /\ ClientUnchanged /\ ConnUnchanged

\* resolvePromise that runs the resolver of any call made with the nonce
ResolvePromiseAnyCall(nonce, result) ==
    /\ IF \E c \in 1..Len(calls) : calls[c].nonce = nonce
       THEN /\ calls' = Invoke(calls, CHOOSE c \in 1..Len(calls) : calls[c].nonce = nonce, result)
            /\ resolverQueue' = DeleteResolver(resolverQueue, nonce)
       ELSE UNCHANGED << calls, resolverQueue >>
    /\ last' = [Ev("resolvePromise") EXCEPT !.nonce = nonce, !.value = result]
    /\ UNCHANGED timeouts
    /\ ClientUnchanged /\ ConnUnchanged /\ QueueUnchanged

\* resolvePromise(nonce, result)
ResolvePromise(nonce, result) ==
    /\ IF nonce \in DOMAIN resolverQueue
       THEN /\ calls' = Invoke(calls, resolverQueue[nonce], result)
            /\ resolverQueue' = DeleteResolver(resolverQueue, nonce)
       ELSE UNCHANGED << calls, resolverQueue >>
    /\ last' = [Ev("resolvePromise") EXCEPT !.nonce = nonce, !.value = result]
    /\ UNCHANGED timeouts
    /\ ClientUnchanged /\ ConnUnchanged /\ QueueUnchanged

\* A timeout callback that runs no resolver
ResolverTimeoutLost(t) ==
    /\ t \in timeouts
    /\ now >= t.due
    /\ timeouts' = timeouts \ {t}
    /\ UNCHANGED << calls, resolverQueue >>
    /\ last' = [Ev("timeout") EXCEPT !.nonce = t.nonce]
    /\ ClientUnchanged /\ ConnUnchanged /\ QueueUnchanged

\* The setTimeout callback that registerResolver left behind
ResolverTimeout(t) ==
    /\ t \in timeouts
    /\ now >= t.due
    /\ timeouts' = timeouts \ {t}
    /\ IF t.nonce \in DOMAIN resolverQueue
       THEN /\ calls' = Invoke(calls, resolverQueue[t.nonce], Absent)
            /\ resolverQueue' = DeleteResolver(resolverQueue, t.nonce)
       ELSE UNCHANGED << calls, resolverQueue >>
    /\ last' = [Ev("timeout") EXCEPT !.nonce = t.nonce]
    /\ ClientUnchanged /\ ConnUnchanged /\ QueueUnchanged

\* -------------------------------------------------------------- server
\* Header values are sequences of characters; a subprotocol name is one too.
Chat == << "c" >>
Game == << "g" >>
NoHeader == [present |-> FALSE, text |-> << >>]
Header(text) == [present |-> TRUE, text |-> text]
\* sec-websocket-protocol as a client may send it: absent or "c, g"
ProtocolHeaders == { NoHeader, Header(Chat \o << ",", " " >> \o Game) }
Requests == [upgrade : {"websocket", "h2c"}, protocol : ProtocolHeaders]

\* withSubProtocol?: undefined or a name
NoProtocol == [given |-> FALSE, name |-> << >>]
Protocol(name) == [given |-> TRUE, name |-> name]
Protocols == { NoProtocol, Protocol(Chat), Protocol(Game) }

\* Session ids: NoSession is '', id n > 0 is the uuid drawn by connection n.
NoSession == 0
SessionIds == 0..MaxConns
ClientIdle ==
    UNCHANGED << options, now, socks, socket, connected, messageQueue, intervals,
                 reconnectIntervalHandle, resolverQueue, timeouts, calls, enqueued, last >>

\* text.split(',') from position i on, cur being the piece in progress
RECURSIVE SplitFrom(_, _, _)
SplitFrom(text, i, cur) ==
    IF i > Len(text) THEN << cur >>
    ELSE IF text[i] = "," THEN << cur >> \o SplitFrom(text, i + 1, << >>)
    ELSE SplitFrom(text, i + 1, Append(cur, text[i]))
Split(text) == SplitFrom(text, 1, << >>)

RECURSIVE TrimStart(_)
TrimStart(it) == IF it # << >> /\ Head(it) = " " THEN TrimStart(Tail(it)) ELSE it
RECURSIVE TrimEnd(_)
TrimEnd(it) ==
    IF it # << >> /\ it[Len(it)] = " " THEN TrimEnd(SubSeq(it, 1, Len(it) - 1)) ELSE it
\* it.trim()
Trim(it) == TrimEnd(TrimStart(it))

NonEmpty(it) == Len(it) > 0

\* (header ?? '').split(',').map(it => it.trim()).filter(it => it.length)
SubProtocolsOf(req) ==
    LET parts == Split(IF req.protocol.present THEN req.protocol.text ELSE << >>)
    IN SelectSeq([k \in 1..Len(parts) |-> Trim(parts[k])], NonEmpty)

\* Deno.upgradeWebSocket(req): the socket and the handler's closure variables
\* sessionId and subProtocols
Upgraded(req) ==
    [state |-> "CONNECTING", closeCalled |-> FALSE, errored |-> FALSE,
     sessionId |-> NoSession, subProtocols |-> SubProtocolsOf(req)]

\* A connection after its close notification: the socket fires nothing more and
\* nothing refers to the handler's closure any longer.
Closed ==
    [state |-> "CLOSED", closeCalled |-> FALSE, errored |-> FALSE,
     sessionId |-> NoSession, subProtocols |-> << >>]

\* session.socket.close(code, reason)
ServerClose(cn, c) == CloseSock(cn, c)

\* crypto.randomUUID() in the onopen of connection c: unique per call
\* RandomUUID handing out one id to everybody
RandomUUIDFixed(c) == 1

RandomUUID(c) == c

\* Object.keys(_sessions)
Keys(ss) == [k \in 1..Len(ss) |-> ss[k].id]
\* _sessions[id]: the position of the entry, 0 for undefined
Lookup(ss, id) ==
    IF \E k \in 1..Len(ss) : ss[k].id = id
    THEN CHOOSE k \in 1..Len(ss) : ss[k].id = id
    ELSE 0
\* delete _sessions[id]
Delete(ss, id) == SelectSeq(ss, LAMBDA e : e.id # id)
\* _sessions[id] = {socket, subProtocols}
Register(ss, id, c, subProtocols) ==
    IF Lookup(ss, id) = 0
    THEN Append(ss, [id |-> id, socket |-> c, subProtocols |-> subProtocols])
    ELSE [ss EXCEPT ![Lookup(ss, id)] =
              [id |-> id, socket |-> c, subProtocols |-> subProtocols]]

\* UnreadyStates without CLOSING
UnreadyStatesLax == {"CONNECTING", "CLOSED"}

\* _unreadyStates
UnreadyStates == {"CONNECTING", "CLOSING", "CLOSED"}

\* SubProtocolMatches looking at every negotiated subprotocol
SubProtocolMatchesAny(subProtocols, proto) ==
    ~proto.given \/ \E k \in 1..Len(subProtocols) : subProtocols[k] = proto.name

\* withSubProtocol === undefined || session.subProtocols[0] === withSubProtocol
SubProtocolMatches(subProtocols, proto) ==
    ~proto.given \/ (Len(subProtocols) > 0 /\ subProtocols[1] = proto.name)

\* sendMessage(message, toSessionId, withSubProtocol): what it returns, the
\* connections whose socket took the message, whether socket.send threw
SendMessage(ss, cn, toSessionId, proto) ==
    LET k == Lookup(ss, toSessionId)
    IN IF /\ k # 0
          /\ cn[ss[k].socket].state \notin UnreadyStates
          /\ SubProtocolMatches(ss[k].subProtocols, proto)
       THEN [ret |-> TRUE,
             out |-> IF SocketSend(cn, ss[k].socket) = "sent"
                     THEN << ss[k].socket >> ELSE << >>,
             threw |-> SocketSend(cn, ss[k].socket) = "throw"]
       ELSE [ret |-> FALSE, out |-> << >>, threw |-> FALSE]

\* let sent = 0
NoneSent == [sent |-> 0, out |-> << >>, threw |-> FALSE]
\* if (this.sendMessage(...)) sent++
Tally(acc, one) ==
    [sent |-> acc.sent + (IF one.ret THEN 1 ELSE 0),
     out |-> acc.out \o one.out,
     threw |-> one.threw]

\* for (const sessionId of ids) if (this.sendMessage(...)) sent++
\* An exception of socket.send ends the loop.
RECURSIVE SendEach(_, _, _, _, _, _)
SendEach(ss, cn, ids, i, proto, acc) ==
    IF i > Len(ids) \/ acc.threw THEN acc
    ELSE SendEach(ss, cn, ids, i + 1, proto,
                  Tally(acc, SendMessage(ss, cn, ids[i], proto)))

\* sendMessageToAll(message, subProtocol)
SendMessageToAll(ss, cn, proto) == SendEach(ss, cn, Keys(ss), 1, proto, NoneSent)

\* SendMessageToOthers without the sessionId != mySessionId test
SendMessageToOthersToo(ss, cn, mySessionId, proto) ==
    SendEach(ss, cn, Keys(ss), 1, proto, NoneSent)

\* sendMessageToOthers(message, mySessionId, subProtocol)
SendMessageToOthers(ss, cn, mySessionId, proto) ==
    SendEach(ss, cn, SelectSeq(Keys(ss), LAMBDA sessionId : sessionId # mySessionId),
             1, proto, NoneSent)

\* SendMessageToGroup iterating the whole registry
SendMessageToGroupAll(ss, cn, toSessionIds, proto) ==
    SendEach(ss, cn, Keys(ss), 1, proto, NoneSent)

\* sendMessageToGroup(message, toSessionIds, subProtocol)
SendMessageToGroup(ss, cn, toSessionIds, proto) ==
    SendEach(ss, cn, toSessionIds, 1, proto, NoneSent)

\* The lists of session ids handed to sendMessageToGroup
GroupLists ==
    {<< >>} \cup { << a >> : a \in SessionIds } \cup { << a, b >> : a, b \in SessionIds }

\* EWebSocketServerState as reported through onServerEvent; an Error event
\* with its message
ClientDisconnected == "ClientDisconnected"
ClientConnected == "ClientConnected"
ServerStarted == "ServerStarted"
ServerShutdown == "ServerShutdown"
FinishedUnexpectedly == "Error: Server finished unexpectedly"
UnableToStart == "Error: Unable to start server"

\* The server's request handler: 501 unless the request asks for a websocket,
\* else the connection is upgraded and its handlers are bound.
Handler(req) ==
    /\ Len(conns) < MaxConns
    /\ IF req.upgrade # "websocket"
       THEN /\ srvLast' = [SrvEv("handler") EXCEPT !.status = 501]
            /\ UNCHANGED << conns, sessions >>
       ELSE /\ conns' = Append(conns, Upgraded(req))
            /\ srvLast' = SrvEv("handler")
            /\ UNCHANGED sessions
    /\ ClientIdle /\ ListenerUnchanged

\* socket.onopen of connection c
ServerOnOpen(c) ==
    /\ c \in 1..Len(conns)
    /\ conns[c].state = "CONNECTING"
    /\ conns' = [conns EXCEPT ![c] = [@ EXCEPT !.state = "OPEN", !.sessionId = RandomUUID(c)]]
    /\ sessions' = Register(sessions, RandomUUID(c), c, conns[c].subProtocols)
    /\ srvLast' = [SrvEv("onopen") EXCEPT !.id = RandomUUID(c),
                                         !.events = << ClientConnected >>]
    /\ ClientIdle /\ ListenerUnchanged

\* The peer starts the closing handshake of connection c: its socket's
\* readyState is CLOSING until the close notification.
PeerCloses(c) ==
    /\ c \in 1..Len(conns)
    /\ conns[c].state = "OPEN"
    /\ conns' = [conns EXCEPT ![c].state = "CLOSING"]
    /\ srvLast' = SrvEv("closing")
    /\ UNCHANGED sessions
    /\ ClientIdle /\ ListenerUnchanged

\* socket.onclose of connection c
ServerOnClose(c) ==
    /\ c \in 1..Len(conns)
    /\ conns[c].state # "CLOSED"
    /\ conns' = [conns EXCEPT ![c] = Closed]
    /\ sessions' = Delete(sessions, conns[c].sessionId)
    /\ srvLast' = [SrvEv("onclose") EXCEPT !.id = conns[c].sessionId,
                                          !.events = << ClientDisconnected >>]
    /\ ClientIdle /\ ListenerUnchanged

\* ServerOnError that also removes the session
ServerOnErrorRemoving(c) ==
    /\ c \in 1..Len(conns)
    /\ conns[c].state # "CLOSED"
    /\ ~conns[c].errored
    /\ conns' = [conns EXCEPT ![c] = [@ EXCEPT !.state = "CLOSING", !.errored = TRUE]]
    /\ sessions' = Delete(sessions, conns[c].sessionId)
    /\ srvLast' = [SrvEv("onerror") EXCEPT !.conn = c, !.id = conns[c].sessionId,
                                           !.subProtocols = conns[c].subProtocols]
    /\ ClientIdle /\ ListenerUnchanged

\* socket.onerror of connection c: the Error event is reported with the
\* handler's sessionId and subProtocols. The socket is no longer open when it
\* delivers the notification; its close notification follows.
ServerOnError(c) ==
    /\ c \in 1..Len(conns)
    /\ conns[c].state # "CLOSED"
    /\ ~conns[c].errored
    /\ conns' = [conns EXCEPT ![c] = [@ EXCEPT !.state = "CLOSING", !.errored = TRUE]]
    /\ srvLast' = [SrvEv("onerror") EXCEPT !.conn = c, !.id = conns[c].sessionId,
                                           !.subProtocols = conns[c].subProtocols]
    /\ UNCHANGED sessions
    /\ ClientIdle /\ ListenerUnchanged

\* socket.onmessage of connection c: the message callback is invoked with the
\* handler's sessionId and subProtocols. A socket delivers messages after its
\* open notification, until it fails or closes.
ServerOnMessage(c) ==
    /\ c \in 1..Len(conns)
    /\ conns[c].state \in {"OPEN", "CLOSING"}
    /\ ~conns[c].errored
    /\ srvLast' = [SrvEv("onmessage") EXCEPT !.conn = c, !.id = conns[c].sessionId,
                                             !.subProtocols = conns[c].subProtocols]
    /\ UNCHANGED << conns, sessions >>
    /\ ClientIdle /\ ListenerUnchanged

\* The application calls sendMessage
SendMessageCall(toSessionId, proto) ==
    /\ LET r == SendMessage(sessions, conns, toSessionId, proto)
       IN srvLast' = [SrvEv("sendMessage") EXCEPT !.ok = r.ret, !.count = Len(r.out),
                         !.threw = r.threw]
    /\ UNCHANGED << conns, sessions >>
    /\ ClientIdle /\ ListenerUnchanged

\* The application calls sendMessageToAll
SendMessageToAllCall(proto) ==
    /\ LET r == SendMessageToAll(sessions, conns, proto)
       IN srvLast' = [SrvEv("sendMessageToAll") EXCEPT !.count = r.sent, !.threw = r.threw]
    /\ UNCHANGED << conns, sessions >>
    /\ ClientIdle /\ ListenerUnchanged

\* The application calls sendMessageToOthers
SendMessageToOthersCall(mySessionId, proto) ==
    /\ LET r == SendMessageToOthers(sessions, conns, mySessionId, proto)
       IN srvLast' = [SrvEv("sendMessageToOthers") EXCEPT !.count = r.sent, !.threw = r.threw]
    /\ UNCHANGED << conns, sessions >>
    /\ ClientIdle /\ ListenerUnchanged

\* The application calls sendMessageToGroup
SendMessageToGroupCall(toSessionIds, proto) ==
    /\ LET r == SendMessageToGroup(sessions, conns, toSessionIds, proto)
       IN srvLast' = [SrvEv("sendMessageToGroup") EXCEPT !.count = r.sent, !.threw = r.threw]
    /\ UNCHANGED << conns, sessions >>
    /\ ClientIdle /\ ListenerUnchanged

\* DisconnectSession that leaves the entry to the close notification
DisconnectSessionLazy(sessionId) ==
    /\ Lookup(sessions, sessionId) # 0
    /\ conns' = ServerClose(conns, sessions[Lookup(sessions, sessionId)].socket)
    /\ srvLast' = [SrvEv("disconnectSession") EXCEPT !.id = sessionId, !.ok = TRUE]
    /\ UNCHANGED sessions
    /\ ClientIdle /\ ListenerUnchanged

\* disconnectSession(sessionId): session.socket of an unknown id reads a
\* property of undefined, which throws a TypeError
DisconnectSession(sessionId) ==
    /\ IF Lookup(sessions, sessionId) = 0
       THEN /\ srvLast' = [SrvEv("disconnectSession") EXCEPT !.id = sessionId, !.threw = TRUE]
            /\ UNCHANGED << conns, sessions >>
       ELSE /\ conns' = ServerClose(conns, sessions[Lookup(sessions, sessionId)].socket)
            /\ sessions' = Delete(sessions, sessionId)
            /\ srvLast' = [SrvEv("disconnectSession") EXCEPT !.id = sessionId, !.ok = TRUE]
    /\ ClientIdle /\ ListenerUnchanged

\* ----------------------------------------------------- server lifecycle
SessionsIdle == UNCHANGED << conns, sessions >>

\* server.shutdown() on listener l by who: it stops listening and finishes
\* later; a no-op on a listener that is closing or has finished
ListenerShutdown(ls, l, who) ==
    IF l = 0 \/ ls[l].state # "listening" THEN ls
    ELSE [ls EXCEPT ![l] = [@ EXCEPT !.state = "closing", !.cause = who]]

\* await server.shutdown() has settled: the promise of listener l is resolved
Settled(l) == l = 0 \/ listeners[l].state = "finished"

\* The port is taken while one of the server's own listeners listens on it.
PortInUse(ls) == \E l \in 1..Len(ls) : ls[l].state = "listening"

\* The application makes its next lifecycle call once the one before has
\* settled and the promise reactions that are due have run.
Quiescent ==
    /\ \A t \in tasks : t.origin # 0 /\ ~Settled(t.waits)
    /\ \A l \in 1..Len(listeners) :
          listeners[l].state = "finished" => listeners[l].notified

\* start() up to its await, called from restart(): if (this._server) await
\* this._server.shutdown(). origin is the listener whose finished callback made
\* the call, 0 for the application.
RestartTask(origin) == [fn |-> "restart", origin |-> origin, waits |-> server]
ShutdownTask == [fn |-> "shutdown", origin |-> 0, waits |-> server]

\* shutdown(): _shouldShutDown = true; await this._server?.shutdown()
Shutdown ==
    /\ Quiescent
    /\ ShutdownTask \notin tasks
    /\ shouldShutDown' = TRUE
    /\ listeners' = ListenerShutdown(listeners, server, "shutdown")
    /\ tasks' = tasks \cup {ShutdownTask}
    /\ srvLast' = [SrvEv("shutdown") EXCEPT !.conn = server]
    /\ UNCHANGED << srvOptions, server >>
    /\ SessionsIdle /\ ClientIdle

\* shutdown() after its await: onServerEvent(ServerShutdown)
ShutdownResumes(t) ==
    /\ t \in tasks /\ t.fn = "shutdown"
    /\ Settled(t.waits)
    /\ tasks' = tasks \ {t}
    /\ srvLast' = [SrvEv("shutdownDone") EXCEPT !.conn = t.waits,
                                               !.events = << ServerShutdown >>]
    /\ UNCHANGED << srvOptions, listeners, server, shouldShutDown >>
    /\ SessionsIdle /\ ClientIdle

\* restart(): _shouldShutDown = false; await this.start()
Restart ==
    /\ Quiescent
    /\ RestartTask(0) \notin tasks
    /\ shouldShutDown' = FALSE
    /\ listeners' = ListenerShutdown(listeners, server, "restart")
    /\ tasks' = tasks \cup {RestartTask(0)}
    /\ srvLast' = [SrvEv("restart") EXCEPT !.conn = server]
    /\ UNCHANGED << srvOptions, server >>
    /\ SessionsIdle /\ ClientIdle

\* start() after its await, then restart() after its own: Deno.serve throws
\* while the port is taken and the catch reports the error; else the new
\* listener becomes _server. restart() then reports ServerStarted.
RestartResumes(t) ==
    /\ t \in tasks /\ t.fn = "restart"
    /\ Settled(t.waits)
    /\ tasks' = tasks \ {t}
    /\ IF PortInUse(listeners)
       THEN /\ srvLast' = [SrvEv("restartDone") EXCEPT
                              !.threw = TRUE, !.events = << UnableToStart, ServerStarted >>]
            /\ UNCHANGED << listeners, server >>
       ELSE /\ Len(listeners) < MaxListeners
            /\ listeners' = Append(listeners, NewListener)
            /\ server' = Len(listeners')
            /\ srvLast' = [SrvEv("restartDone") EXCEPT
                              !.conn = Len(listeners'), !.events = << ServerStarted >>]
    /\ UNCHANGED << srvOptions, shouldShutDown >>
    /\ SessionsIdle /\ ClientIdle

\* Listener l terminates: on its own while listening, or because it was asked
\* to shut down.
ListenerFinishes(l) ==
    /\ l \in 1..Len(listeners)
    /\ listeners[l].state # "finished"
    /\ listeners' = [listeners EXCEPT ![l].state = "finished"]
    /\ srvLast' = [SrvEv("finishes") EXCEPT !.conn = l]
    /\ UNCHANGED << srvOptions, server, shouldShutDown, tasks >>
    /\ SessionsIdle /\ ClientIdle

\* this._server.finished.then(() => {...}) of listener l
FinishedCallback(l) ==
    /\ l \in 1..Len(listeners)
    /\ listeners[l].state = "finished"
    /\ ~listeners[l].notified
    /\ IF shouldShutDown
       THEN /\ listeners' = [listeners EXCEPT ![l].notified = TRUE]
            /\ srvLast' = [SrvEv("finished") EXCEPT !.conn = l]
            /\ UNCHANGED << shouldShutDown, tasks >>
       ELSE IF srvOptions.keepAlive
       THEN /\ shouldShutDown' = FALSE
            /\ listeners' = ListenerShutdown([listeners EXCEPT ![l].notified = TRUE],
                                             server, "keepAlive")
            /\ tasks' = tasks \cup {RestartTask(l)}
            /\ srvLast' = [SrvEv("finished") EXCEPT !.conn = l, !.ok = TRUE,
                                                   !.events = << FinishedUnexpectedly >>]
       ELSE /\ listeners' = [listeners EXCEPT ![l].notified = TRUE]
            /\ srvLast' = [SrvEv("finished") EXCEPT !.conn = l,
                                                   !.events = << FinishedUnexpectedly >>]
            /\ UNCHANGED << shouldShutDown, tasks >>
    /\ UNCHANGED << srvOptions, server >>
    /\ SessionsIdle /\ ClientIdle

\* -------------------------------------------------------- specifications
Next ==
    \/ InitCall
    \/ \E body \in Bodies : Send(body)
    \/ Reconnect
    \/ Disconnect
    \/ \E t \in intervals : ReconnectTick(t)
    \/ \E s \in 1..MaxSockets : OnOpen(s)
    \/ \E s \in 1..MaxSockets : OnClose(s)
    \/ \E s \in 1..MaxSockets : OnError(s)
    \/ \E s \in 1..MaxSockets : OnMessage(s)
    \/ \E body \in Bodies, nonce \in Nonces, ms \in TimeoutChoices :
            SendMessageWithPromise(body, nonce, ms)
    \/ \E nonce \in Nonces, v \in Values : ResolvePromise(nonce, v)
    \/ \E t \in timeouts : ResolverTimeout(t)
    \/ Advance
    \/ \E req \in Requests : Handler(req)
    \/ \E c \in 1..MaxConns : ServerOnOpen(c)
    \/ \E c \in 1..MaxConns : PeerCloses(c)
    \/ \E c \in 1..MaxConns : ServerOnClose(c)
    \/ \E c \in 1..MaxConns : ServerOnError(c)
    \/ \E c \in 1..MaxConns : ServerOnMessage(c)
    \/ \E id \in SessionIds, proto \in Protocols : SendMessageCall(id, proto)
    \/ \E proto \in Protocols : SendMessageToAllCall(proto)
    \/ \E id \in SessionIds, proto \in Protocols : SendMessageToOthersCall(id, proto)
    \/ \E ids \in GroupLists, proto \in Protocols : SendMessageToGroupCall(ids, proto)
    \/ \E id \in SessionIds : DisconnectSession(id)
    \/ Shutdown
    \/ Restart
    \/ \E t \in tasks : ShutdownResumes(t)
    \/ \E t \in tasks : RestartResumes(t)
    \/ \E l \in 1..MaxListeners : ListenerFinishes(l)
    \/ \E l \in 1..MaxListeners : FinishedCallback(l)

Spec == Init /\ [][Next]_vars

\* The outbound queue: the application only uses init() and send().
NextQueue ==
    \/ (socket = 0 /\ InitCall)
    \/ \E body \in Bodies : Send(body)
    \/ \E t \in intervals : ReconnectTick(t)
    \/ \E s \in 1..MaxSockets : OnOpen(s)
    \/ \E s \in 1..MaxSockets : OnClose(s)
    \/ Advance

SpecQueue == Init /\ [][NextQueue]_vars

\* The pending-call registry: init(), sendMessageWithPromise() and resolvePromise().
NextCalls ==
    \/ (socket = 0 /\ InitCall)
    \/ \E s \in 1..MaxSockets : OnOpen(s)
    \/ \E body \in CallBodies, nonce \in Nonces, ms \in TimeoutChoices :
            SendMessageWithPromise(body, nonce, ms)
    \/ \E nonce \in Nonces, v \in Values : ResolvePromise(nonce, v)
    \/ \E t \in timeouts : ResolverTimeout(t)
    \/ Advance

InitCalls ==
    InitWith({ o \in OptionSets : /\ o.messageMaxQueueSeconds = Undefined
                                  /\ o.reconnectIntervalSeconds = Undefined })

SpecCalls == InitCalls /\ [][NextCalls]_vars

\* The connection manager: init(), reconnect(), disconnect(), no traffic.
NextConn ==
    \/ InitCall
    \/ Reconnect
    \/ Disconnect
    \/ \E t \in intervals : ReconnectTick(t)
    \/ \E s \in 1..MaxSockets : OnOpen(s)
    \/ \E s \in 1..MaxSockets : OnClose(s)
    \/ \E s \in 1..MaxSockets : OnError(s)
    \/ \E s \in 1..MaxSockets : OnMessage(s)
    \/ Advance

SpecConn == Init /\ [][NextConn]_vars

\* The application sends, calls and disconnects; the retry period is the
\* default, so no tick falls due.
NextDisconnect ==
    \/ (socket = 0 /\ InitCall)
    \/ Disconnect
    \/ \E body \in Bodies : Send(body)
    \/ \E body \in CallBodies, nonce \in Nonces, ms \in TimeoutChoices :
            SendMessageWithPromise(body, nonce, ms)
    \/ \E s \in 1..MaxSockets : OnOpen(s)
    \/ \E s \in 1..MaxSockets : OnClose(s)
    \/ \E t \in timeouts : ResolverTimeout(t)
    \/ Advance

SpecDisconnect == InitCalls /\ [][NextDisconnect]_vars

\* Traffic over a connection that the application and the retry timer replace:
\* init() once, send(), reconnect(), every notification and tick.
NextTraffic ==
    \/ (socket = 0 /\ InitCall)
    \/ Reconnect
    \/ \E body \in CallBodies : Send(body)
    \/ \E t \in intervals : ReconnectTick(t)
    \/ \E s \in 1..MaxSockets : OnOpen(s)
    \/ \E s \in 1..MaxSockets : OnClose(s)
    \/ \E s \in 1..MaxSockets : OnError(s)
    \/ Advance

\* Whatever is young enough is replayed: no age limit, retry period of a second.
InitTraffic ==
    InitWith({ o \in OptionSets : /\ o.messageMaxQueueSeconds = Undefined
                                  /\ o.reconnectIntervalSeconds # Undefined })

SpecTraffic == InitTraffic /\ [][NextTraffic]_vars

\* The application calls init() once and disconnect(); the host delivers the
\* notifications, runs every due retry tick and lets time pass.
NextReconnect ==
    \/ (socket = 0 /\ InitCall)
    \/ Disconnect
    \/ \E t \in intervals : ReconnectTick(t)
    \/ \E s \in 1..MaxSockets : OnOpen(s)
    \/ \E s \in 1..MaxSockets : OnClose(s)
    \/ Advance

SpecReconnectFair ==
    /\ Init /\ [][NextReconnect]_vars
    /\ WF_vars(Advance)
    /\ WF_vars(\E t \in intervals : ReconnectTick(t))

\* The application calls init() once; reconnect() and disconnect() are not used.
NextRetry ==
    \/ (socket = 0 /\ InitCall)
    \/ \E t \in intervals : ReconnectTick(t)
    \/ \E s \in 1..MaxSockets : OnOpen(s)
    \/ \E s \in 1..MaxSockets : OnClose(s)
    \/ \E s \in 1..MaxSockets : OnError(s)
    \/ \E s \in 1..MaxSockets : OnMessage(s)
    \/ Advance

SpecRetry == Init /\ [][NextRetry]_vars

\* The registry again, every resolvePromise() carrying the same value.
NextCallsOneValue ==
    \/ (socket = 0 /\ InitCall)
    \/ \E s \in 1..MaxSockets : OnOpen(s)
    \/ \E body \in CallBodies, nonce \in Nonces, ms \in TimeoutChoices :
            SendMessageWithPromise(body, nonce, ms)
    \/ \E nonce \in Nonces : ResolvePromise(nonce, CHOOSE v \in Values : TRUE)
    \/ \E t \in timeouts : ResolverTimeout(t)
    \/ Advance

\* The host runs every due resolver timer and lets time pass.
SpecCallsFair ==
    /\ InitCalls /\ [][NextCallsOneValue]_vars
    /\ WF_vars(Advance)
    /\ WF_vars(\E t \in timeouts : ResolverTimeout(t))

\* The session registry: connections come and go while the application sends
\* to single sessions and disconnects them; the client stays unused.
NextServer ==
    \/ \E req \in Requests : Handler(req)
    \/ \E c \in 1..MaxConns : ServerOnOpen(c)
    \/ \E c \in 1..MaxConns : PeerCloses(c)
    \/ \E c \in 1..MaxConns : ServerOnClose(c)
    \/ \E id \in SessionIds, proto \in Protocols : SendMessageCall(id, proto)
    \/ \E id \in SessionIds : DisconnectSession(id)

InitServer ==
    InitWith({ o \in OptionSets : /\ ~o.messageQueueing
                                  /\ o.messageMaxQueueSeconds = Undefined
                                  /\ o.reconnectIntervalSeconds = Undefined })

SpecServer == InitServer /\ [][NextServer]_vars

\* The broadcast router: connections come and go while the application
\* broadcasts.
NextBroadcast ==
    \/ \E req \in Requests : Handler(req)
    \/ \E c \in 1..MaxConns : ServerOnOpen(c)
    \/ \E c \in 1..MaxConns : PeerCloses(c)
    \/ \E c \in 1..MaxConns : ServerOnClose(c)
    \/ \E proto \in Protocols : SendMessageToAllCall(proto)
    \/ \E id \in SessionIds, proto \in Protocols : SendMessageToOthersCall(id, proto)

SpecBroadcast == InitServer /\ [][NextBroadcast]_vars

\* The broadcast router, the application sending to groups by subprotocol.
NextGroup ==
    \/ \E req \in Requests : Handler(req)
    \/ \E c \in 1..MaxConns : ServerOnOpen(c)
    \/ \E c \in 1..MaxConns : PeerCloses(c)
    \/ \E c \in 1..MaxConns : ServerOnClose(c)
    \/ \E ids \in GroupLists, proto \in Protocols \ {NoProtocol} :
            SendMessageToGroupCall(ids, proto)

SpecGroup == InitServer /\ [][NextGroup]_vars

\* The session registry, the application only disconnecting sessions.
NextSessions ==
    \/ \E req \in Requests : Handler(req)
    \/ \E c \in 1..MaxConns : ServerOnOpen(c)
    \/ \E c \in 1..MaxConns : PeerCloses(c)
    \/ \E c \in 1..MaxConns : ServerOnClose(c)
    \/ \E id \in SessionIds : DisconnectSession(id)

SpecSessions == InitServer /\ [][NextSessions]_vars

\* The session registry under every notification: open, close, error and
\* message, the application disconnecting sessions.
NextRegistry ==
    \/ \E req \in Requests : Handler(req)
    \/ \E c \in 1..MaxConns : ServerOnOpen(c)
    \/ \E c \in 1..MaxConns : ServerOnClose(c)
    \/ \E c \in 1..MaxConns : ServerOnError(c)
    \/ \E c \in 1..MaxConns : ServerOnMessage(c)
    \/ \E id \in SessionIds : DisconnectSession(id)

SpecRegistry == InitServer /\ [][NextRegistry]_vars

\* The listener's lifecycle: it terminates on its own or on request, the
\* application shuts the server down and restarts it.
NextLifecycle ==
    \/ Shutdown
    \/ Restart
    \/ \E t \in tasks : ShutdownResumes(t)
    \/ \E t \in tasks : RestartResumes(t)
    \/ \E l \in 1..MaxListeners : ListenerFinishes(l)
    \/ \E l \in 1..MaxListeners : FinishedCallback(l)

InitLifecycle ==
    InitOf({ o \in OptionSets : /\ ~o.messageQueueing
                                /\ o.messageMaxQueueSeconds = Undefined
                                /\ o.reconnectIntervalSeconds = Undefined },
           ServerOptionSets)

SpecLifecycle == InitLifecycle /\ [][NextLifecycle]_vars

\* ------------------------------------------------------------------ claims
\* The text a payload is expected to travel as.
ExpectedText(body) ==
    IF body.type = "string" THEN body.str
    ELSE IF body.type = "number" /\ body.num = 1 THEN "1" ELSE "?"

\* The configured maximum age in ms; 0 or unset means no limit.
NoAgeLimit ==
    options.messageMaxQueueSeconds = Undefined \/ options.messageMaxQueueSeconds = 0
YoungEnough(item, t) ==
    NoAgeLimit \/ t - item.time <= options.messageMaxQueueSeconds * MsPerSecond
KeptIndexes(q, t) == { i \in 1..Len(q) : YoungEnough(q[i], t) }
Rank(S, i) == Cardinality({ j \in S : j <= i })

\* C1: the flush run by an open notification transmits exactly the entries that
\* were enqueued by send() while not connected and are not older than the
\* configured maximum, in enqueue order, and leaves the queue empty.
C1_FlushReplaysYoungEntriesInOrder ==
    [][ last'.op = "onOpen" =>
          LET K == KeptIndexes(enqueued, now)
          IN /\ Len(last'.sent) = Cardinality(K)
             /\ \A i \in K : last'.sent[Rank(K, i)] = enqueued[i].message
             /\ last'.dropped = Len(enqueued) - Cardinality(K)
             /\ messageQueue' = << >>
             /\ ~last'.threw ]_vars

\* A flush that sent a young entry and skipped an old one.
C1_Witness == last.op = "onOpen" /\ Len(last.sent) >= 1 /\ last.dropped >= 1

\* C2: send() while not connected transmits nothing and raises nothing; with
\* queueing on it appends (now, payload text) at the tail of the queue, with
\* queueing off it leaves the queue alone; nothing else of the client changes.
C2_SendWhileDisconnected ==
    [][ (last'.op = "send" /\ ~connected) =>
          /\ last'.sent = << >>
          /\ ~last'.threw
          /\ messageQueue' =
                IF options.messageQueueing
                THEN Append(messageQueue, [time |-> now, message |-> ExpectedText(last'.body)])
                ELSE messageQueue
          /\ UNCHANGED << options, now, socks, socket, connected, intervals,
                          reconnectIntervalHandle, resolverQueue, timeouts, calls >> ]_vars

\* A second send queued behind a first one while the socket is still connecting.
C2_Witness ==
    /\ last.op = "send" /\ ~connected /\ socket # 0
    /\ Len(messageQueue) = 2
    /\ messageQueue[2].message = ExpectedText(last.body)

\* A send dropped because queueing is off.
C2_WitnessDropped ==
    last.op = "send" /\ ~connected /\ ~options.messageQueueing /\ messageQueue = << >>
\* ---- the pending-call registry, read off the history of calls
CallIds == 1..Len(calls)
\* The last call made with nonce n (0 when there is none).
Latest(n) ==
    IF \E c \in CallIds : calls[c].nonce = n
    THEN CHOOSE c \in CallIds : calls[c].nonce = n /\ \A d \in CallIds : calls[d].nonce = n => d <= c
    ELSE 0
Fired(c) == calls[c].results # << >>
Overwritten(c) == Latest(calls[c].nonce) # c
\* Registered, not replaced by a later registration, not fired yet.
IsPending(c) == ~Fired(c) /\ ~Overwritten(c)
Deadline(c) == calls[c].at + calls[c].timeoutMs
Results(c) == { calls[c].results[k] : k \in 1..Len(calls[c].results) }

\* C3: resolvePromise(id, value) on an id with a pending call invokes that
\* call's resolver with exactly value and removes id from the registry.
C3_ResolveFiresPendingCall ==
    [][ last'.op = "resolvePromise" =>
          \A c \in CallIds :
             (IsPending(c) /\ calls[c].nonce = last'.nonce) =>
                /\ calls'[c].results = << last'.value >>
                /\ last'.nonce \notin DOMAIN resolverQueue' ]_vars

\* A resolve has just fired a pending call with its value.
C3_Witness ==
    /\ last.op = "resolvePromise"
    /\ \E c \in CallIds : /\ calls[c].nonce = last.nonce
                           /\ ~Overwritten(c)
                           /\ calls[c].results = << last.value >>

\* C4: no resolver receives the absent result before its own deadline
\* (its own registration time plus its own timeoutMs).
C4_AbsentOnlyAfterOwnDeadline ==
    \A c \in CallIds : Absent \in Results(c) => now >= Deadline(c)

\* C5: resolvePromise(id, value) on an id without a pending call runs no
\* resolver, leaves the registry as it is and raises nothing.
C5_ResolveWithoutPendingCall ==
    [][ (last'.op = "resolvePromise"
           /\ ~\E c \in CallIds : IsPending(c) /\ calls[c].nonce = last'.nonce) =>
          /\ calls' = calls
          /\ resolverQueue' = resolverQueue
          /\ timeouts' = timeouts
          /\ ~last'.threw ]_vars

\* A resolve that came after the call had timed out, with another id still pending.
C5_Witness ==
    /\ last.op = "resolvePromise"
    /\ \E c \in CallIds : /\ calls[c].nonce = last.nonce
                           /\ ~Overwritten(c)
                           /\ calls[c].results = << Absent >>
    /\ \E d \in CallIds : IsPending(d)

\* C6: the registry holds at most one call per id, the last one registered,
\* and a call replaced by a later registration with its id is never run again.
C6_OverwrittenCallNeverRuns ==
    [][ /\ \A n \in DOMAIN resolverQueue : resolverQueue[n] = Latest(n)
        /\ \A c \in CallIds : Overwritten(c) => calls'[c].results = calls[c].results ]_vars

\* A call was replaced while pending; the second has fired, the first never.
C6_Witness ==
    \E c, d \in CallIds :
        /\ c < d /\ calls[c].nonce = calls[d].nonce
        /\ ~Fired(c) /\ Fired(d)
        /\ timeouts = {}

\* C7: no resolver is invoked more than once.
C7_FiredAtMostOnce == \A c \in CallIds : Len(calls[c].results) <= 1

\* The timer of a call that resolve had already fired has run and done nothing.
C7_Witness ==
    /\ last.op = "timeout"
    /\ \E c \in CallIds : /\ calls[c].nonce = last.nonce
                           /\ ~Overwritten(c)
                           /\ Len(calls[c].results) = 1
                           /\ calls[c].results[1] \in Values

\* C8: every call that is registered and not overwritten is eventually fired,
\* and the step that fires it takes its id out of the registry.
C8_PendingCallEventuallyFired ==
    /\ \A c \in 1..MaxCalls :
          (c \in CallIds /\ IsPending(c)) ~> (c \in CallIds /\ (Fired(c) \/ Overwritten(c)))
    /\ [][ \A c \in CallIds :
             (~Fired(c) /\ calls'[c].results # << >>) =>
                calls[c].nonce \notin DOMAIN resolverQueue' ]_vars

\* A call made before init() with queueing off (its payload was dropped) has
\* been fired by its timer.
C8_Witness ==
    /\ socket = 0 /\ ~options.messageQueueing
    /\ \E c \in CallIds : calls[c].results = << Absent >>

\* A call whose payload went out on the open socket has been fired.
C8_WitnessConnected ==
    /\ connected
    /\ \E c \in CallIds : Fired(c) /\ ~calls[c].rejected
\* ---- the connection manager
\* Socket s has delivered its open notification and neither an error nor a
\* close notification since.
Healthy(s) ==
    /\ s # 0
    /\ socks[s].opened
    /\ ~socks[s].errored
    /\ socks[s].state # "CLOSED"

\* C9: after an error notification the retry timer is armed, and once an open
\* notification has been handled no timer-driven connection attempt is made
\* while that connection stays open.
C9_RetryOnlyWhileNotOpen ==
    [][ /\ (last'.op = "onError" => intervals' # {})
        /\ ((\E s \in 1..Len(socks) : socks[s].errored)
               /\ Healthy(socket) /\ socks[socket].state = "OPEN" => last'.op # "tick") ]_vars

\* C10: isConnected() is true exactly when the current socket has delivered
\* its open notification and no close or error notification has fired since.
C10_IsConnectedReflectsCurrentSocket == connected <=> Healthy(socket)

\* C11: reconnect() closes the current socket (if any), starts a new connection
\* attempt at once, and leaves no retry timer armed on a schedule older than
\* the call: every timer still armed is due a full period after it.
C11_ReconnectSupersedesRetryTimer ==
    [][ last'.op = "reconnect" =>
          /\ (socket # 0 => socks'[socket].closeCalled)
          /\ socket' = Len(socks') /\ socket' # socket
          /\ socks'[socket'].state = "CONNECTING"
          /\ \A t \in intervals' : t.due >= now + ReconnectIntervalMs ]_vars

\* C12: close() has been invoked on every socket but the one the manager
\* holds, which is the newest; so at most one socket exists on which close()
\* was never invoked.
C12_AtMostOneUnclosedSocket ==
    /\ socket = Len(socks)
    /\ \A s \in 1..Len(socks) : s # socket => socks[s].closeCalled
    /\ Cardinality({ s \in 1..Len(socks) : ~socks[s].closeCalled }) <= 1

\* A timer tick replaced a socket that was open: the old one is closing, the
\* new one is the only socket never closed.
C12_Witness ==
    /\ last.op = "tick"
    /\ Len(socks) >= 2
    /\ ~socks[socket].closeCalled
    /\ socks[socket - 1].opened
    /\ socks[socket - 1].closeCalled
    /\ socks[socket - 1].state = "CLOSING"

\* C13: a disconnect() that directly follows a disconnect() changes nothing
\* and raises nothing, so two calls in a row leave the client where one call
\* leaves it; with no socket, disconnect() changes nothing at all.
C13_DisconnectTwiceIsDisconnectOnce ==
    /\ [](CloseSock(CloseSock(socks, socket), socket) = CloseSock(socks, socket))
    /\ [][ last'.op = "disconnect" =>
             /\ ~last'.threw /\ last'.sent = << >>
             /\ (socket = 0 \/ last.op = "disconnect" =>
                   UNCHANGED << options, now, socks, socket, connected, messageQueue,
                                intervals, reconnectIntervalHandle, resolverQueue,
                                timeouts, calls, enqueued >>) ]_vars

\* disconnect() was called on the open current socket: it is closing, its close
\* notification has not arrived, and a second disconnect() can follow.
C13_Witness ==
    /\ last.op = "disconnect"
    /\ socket # 0
    /\ socks[socket].opened
    /\ socks[socket].state = "CLOSING"
    /\ connected
    /\ ENABLED Disconnect

\* C14: a disconnect() call leaves the retry timer (armed or cancelled), the
\* outbound queue and the pending-call registry with its timers as they were;
\* only the current socket is asked to close.
C14_DisconnectOnlyClosesSocket ==
    [][ last'.op = "disconnect" =>
          /\ UNCHANGED << intervals, reconnectIntervalHandle >>
          /\ UNCHANGED << messageQueue >>
          /\ UNCHANGED << resolverQueue, timeouts >>
          /\ UNCHANGED << socket, connected >>
          /\ socks' = CloseSock(socks, socket) ]_vars

\* disconnect() ran with the timer armed, a message queued and a call pending.
C14_Witness ==
    /\ last.op = "disconnect"
    /\ socket # 0 /\ socks[socket].closeCalled
    /\ intervals # {}
    /\ messageQueue # << >>
    /\ \E c \in CallIds : IsPending(c)

\* disconnect() ran on the open socket, the timer cancelled.
C14_WitnessCancelled ==
    /\ last.op = "disconnect"
    /\ connected /\ socks[socket].state = "CLOSING"
    /\ intervals = {}

\* ---- the session registry and the broadcast router
Registered(id) == \E k \in 1..Len(sessions) : sessions[k].id = id
SessionOf(id) == CHOOSE e \in { sessions[k] : k \in 1..Len(sessions) } : e.id = id
\* The session id is registered, its socket is open, and the subprotocol, when
\* one is given, is the first the session negotiated.
Accepts(id, proto) ==
    /\ Registered(id)
    /\ conns[SessionOf(id).socket].state = "OPEN"
    /\ (proto.given => /\ SessionOf(id).subProtocols # << >>
                       /\ Head(SessionOf(id).subProtocols) = proto.name)
Times(seq, x) == Cardinality({ k \in 1..Len(seq) : seq[k] = x })
Range(seq) == { seq[k] : k \in 1..Len(seq) }

C15_WitnessRefused ==
    /\ srvLast.op = "sendMessage"
    /\ ~srvLast.ok /\ srvLast.count = 0
    /\ Len(sessions) = MaxConns
    /\ \A k \in 1..Len(sessions) : conns[sessions[k].socket].state = "OPEN"

\* C16: sendMessageToAll hands the payload exactly once to every registered
\* session that is open and matches the subprotocol, to no other socket, and
\* returns the number of sessions it delivered to.
C16_ToAllDeliversOnceToEveryReadySession ==
    \A proto \in Protocols :
        LET r == SendMessageToAll(sessions, conns, proto)
        IN /\ ~r.threw
           /\ \A id \in SessionIds :
                 Registered(id) =>
                    Times(r.out, SessionOf(id).socket) = IF Accepts(id, proto) THEN 1 ELSE 0
           /\ \A c \in Range(r.out) :
                 \E id \in SessionIds : Accepts(id, proto) /\ SessionOf(id).socket = c
           /\ r.sent = Cardinality({ id \in SessionIds : Accepts(id, proto) })

\* Sessions A: open, B: closing, C: open; sendMessageToAll returned 2.
C16_Witness ==
    /\ srvLast.op = "sendMessageToAll"
    /\ srvLast.count = 2
    /\ Len(sessions) = 3
    /\ conns[sessions[1].socket].state = "OPEN"
    /\ conns[sessions[2].socket].state = "CLOSING"
    /\ conns[sessions[3].socket].state = "OPEN"

C18_ToOthersSkipsOnlyTheExcluded ==
    \A my \in SessionIds, proto \in Protocols :
        LET r == SendMessageToOthers(sessions, conns, my, proto)
        IN /\ ~r.threw
           /\ Registered(my) => SessionOf(my).socket \notin Range(r.out)
           /\ \A id \in SessionIds \ {my} :
                 Registered(id) =>
                    Times(r.out, SessionOf(id).socket) =
                        IF SendMessage(sessions, conns, id, proto).ret THEN 1 ELSE 0
           /\ r.sent = Len(r.out)
           /\ ~Registered(my) => r = SendMessageToAll(sessions, conns, proto)

\* sendMessageToOthers reached all but one of several open sessions without
\* subprotocols: no subprotocol was given and the excluded id was registered.
C18_Witness ==
    /\ srvLast.op = "sendMessageToOthers"
    /\ Len(sessions) >= 2
    /\ srvLast.count = Len(sessions) - 1
    /\ \A k \in 1..Len(sessions) : /\ conns[sessions[k].socket].state = "OPEN"
                                   /\ sessions[k].subProtocols = << >>

\* C19: disconnectSession on a registered id calls close on the session's
\* socket, removes the entry in the same call, before the socket's close
\* notification, and returns true; right after it sendMessage to the id returns
\* false and no broadcast reaches the socket.
C19_DisconnectSessionRemovesAtOnce ==
    [][ srvLast'.op = "disconnectSession" /\ Registered(srvLast'.id) =>
          /\ srvLast'.ok /\ ~srvLast'.threw
          /\ conns'[SessionOf(srvLast'.id).socket].closeCalled
          /\ conns'[SessionOf(srvLast'.id).socket].state = "CLOSING"
          /\ \A k \in 1..Len(sessions') : sessions'[k].id # srvLast'.id
          /\ \A proto \in Protocols :
                /\ ~SendMessage(sessions', conns', srvLast'.id, proto).ret
                /\ SessionOf(srvLast'.id).socket
                      \notin Range(SendMessageToAll(sessions', conns', proto).out)
                /\ \A my \in SessionIds :
                      SessionOf(srvLast'.id).socket
                         \notin Range(SendMessageToOthers(sessions', conns', my, proto).out)
                /\ SessionOf(srvLast'.id).socket
                      \notin Range(SendMessageToGroup(sessions', conns',
                                                      << srvLast'.id >>, proto).out) ]_vars

\* disconnectSession returned true for a session whose socket was open: the
\* socket is closing, its close notification still to come, the entry gone.
C19_Witness ==
    /\ srvLast.op = "disconnectSession"
    /\ srvLast.ok
    /\ ~Registered(srvLast.id)
    /\ \E c \in 1..Len(conns) : /\ conns[c].sessionId = srvLast.id
                                /\ conns[c].closeCalled
                                /\ conns[c].state = "CLOSING"
    /\ sessions # << >>

\* C20: disconnectSession for an id that is not registered returns false,
\* throws nothing and leaves the registry as it was.
C20_DisconnectUnknownSessionReturnsFalse ==
    [][ srvLast'.op = "disconnectSession" /\ ~Registered(srvLast'.id) =>
          /\ ~srvLast'.threw
          /\ ~srvLast'.ok
          /\ sessions' = sessions ]_vars

\* ---- the registry under every notification
\* Connection c has delivered its open notification.
Opened(c) == conns[c].sessionId # NoSession
HasEntry(c) == \E k \in 1..Len(sessions) : sessions[k].socket = c

\* C21 as stated: a connection has a registry entry exactly when its socket
\* has delivered its open notification and has not yet signalled closed.
C21_RegisteredIffOpenedAndNotClosed ==
    \A c \in 1..Len(conns) :
        HasEntry(c) <=> (Opened(c) /\ conns[c].state # "CLOSED")

\* C21 amended: a connection has a registry entry exactly when its socket has
\* delivered its open notification, has not yet signalled closed and
\* disconnectSession has not been called for its session.
C21_RegisteredIffOpenedNotClosedNotDisconnected ==
    \A c \in 1..Len(conns) :
        HasEntry(c) <=>
            (Opened(c) /\ conns[c].state # "CLOSED" /\ ~conns[c].closeCalled)

\* One session was disconnected and its socket has not signalled closed yet,
\* another delivered an error and is still registered.
C21_Witness ==
    /\ \E c \in 1..Len(conns) :
          Opened(c) /\ conns[c].closeCalled /\ conns[c].state = "CLOSING" /\ ~HasEntry(c)
    /\ \E c \in 1..Len(conns) : conns[c].errored /\ HasEntry(c)

Reports(ev, event) == \E k \in 1..Len(ev.events) : ev.events[k] = event
AutoRestartPending == \E t \in tasks : t.fn = "restart" /\ t.origin # 0

\* C22: when a listener's termination is handled, the server restarts on its
\* own exactly if keepAlive is set and shutdown() did not request the
\* termination; a termination that shutdown() requested is not reported as
\* 'Server finished unexpectedly'; once shutdown() has been called no automatic
\* restart is under way or completes, and shutdown() reports ServerShutdown
\* when the listener has stopped.
C22_AutoRestartIffKeepAliveAndNoShutdown ==
    [][/\ srvLast'.op = "finished" =>
            /\ srvLast'.ok <=> (srvOptions.keepAlive
                                /\ listeners[srvLast'.conn].cause # "shutdown")
            /\ srvLast'.ok <=> (tasks' # tasks /\ AutoRestartPending')
            /\ listeners[srvLast'.conn].cause = "shutdown"
                  => ~Reports(srvLast', FinishedUnexpectedly)
       /\ shouldShutDown' => ~AutoRestartPending'
       /\ srvLast'.op = "restartDone" => ~shouldShutDown
       /\ srvLast'.op = "shutdownDone" =>
            /\ Settled(srvLast'.conn)
            /\ srvLast'.events = << ServerShutdown >>]_vars

\* C29: the termination of the listener that an explicit restart() shut down is
\* not reported as 'Server finished unexpectedly' and makes no second restart()
\* call, and the start that restart() makes never finds the port taken by a
\* listener of this server.
C29_RestartStartsExactlyOneListener ==
    [][/\ (srvLast'.op = "finished" /\ listeners[srvLast'.conn].cause = "restart")
            => (~Reports(srvLast', FinishedUnexpectedly) /\ ~srvLast'.ok)
       /\ srvLast'.op = "restartDone" => ~srvLast'.threw]_vars

\* C23: the error notification of a registered session's socket removes the
\* session from the registry, so that from then on sendMessage to its id
\* returns false, whatever the subprotocol asked for.
C23_ErrorRemovesSession ==
    [][(srvLast'.op = "onerror" /\ Registered(srvLast'.id)) =>
            /\ Lookup(sessions', srvLast'.id) = 0
            /\ \A proto \in Protocols :
                  ~SendMessage(sessions', conns', srvLast'.id, proto).ret]_vars

\* C24: a message callback is made only for a connection whose session was
\* registered before, under an id that no other connection has; the callback
\* carries that id, which is not the empty one, and the subprotocols recorded
\* at the upgrade; while the session is in the registry its entry holds this
\* connection's socket and the same subprotocols, and it is missing only after
\* disconnectSession.
C24_MessageCarriesRegisteredSession ==
    [][srvLast'.op = "onmessage" =>
         LET c == srvLast'.conn IN
         /\ Opened(c)
         /\ srvLast'.id # NoSession
         /\ srvLast'.id = conns[c].sessionId
         /\ \A d \in 1..Len(conns) : d # c => conns[d].sessionId # srvLast'.id
         /\ srvLast'.subProtocols = conns[c].subProtocols
         /\ IF Registered(srvLast'.id)
            THEN /\ SessionOf(srvLast'.id).socket = c
                 /\ SessionOf(srvLast'.id).subProtocols = srvLast'.subProtocols
            ELSE conns[c].closeCalled]_vars

C24_Witness ==
    /\ srvLast.op = "onmessage"
    /\ srvLast.id # NoSession
    /\ srvLast.subProtocols = << Chat, Game >>
    /\ Registered(srvLast.id)
    /\ Len(sessions) > 1

\* C30: a ClientDisconnected event carries the id of a session whose
\* ClientConnected event was reported before (the id its connection took when
\* its open notification was handled), and none was reported for that id
\* before (the connection has not signalled closed yet).
C30_DisconnectedFollowsConnected ==
    [][Reports(srvLast', ClientDisconnected) =>
         \E c \in 1..Len(conns) :
             /\ Opened(c)
             /\ conns[c].sessionId = srvLast'.id
             /\ conns[c].state # "CLOSED"
             /\ conns'[c].state = "CLOSED"]_vars

\* C25: whenever the client's current socket is open, no retry timer is armed.
C25_NoRetryTimerWhileOpen ==
    (socket # 0 /\ socks[socket].state = "OPEN") => intervals = {}

\* C26: a send() made while the current socket is missing, connecting, closing
\* or closed takes the queue-or-drop branch: it hands nothing to the socket and
\* raises nothing, and appends to the queue exactly when queueing is on.
C26_SendOnlyToOpenSocket ==
    [][(last'.op = "send" /\ (socket = 0 \/ socks[socket].state # "OPEN")) =>
          /\ last'.sent = << >>
          /\ ~last'.threw
          /\ messageQueue' = Enqueue(messageQueue, Serialize(last'.body))]_vars

\* C27: whenever isConnected() is true the outbound queue is empty.
C27_ConnectedImpliesQueueEmpty == connected => messageQueue = << >>

\* An open notification has just flushed and cleared a queue that send() had
\* filled after the retry timer replaced the first socket.
C27_Witness ==
    /\ last.op = "onOpen" /\ Len(last.sent) = 2
    /\ connected /\ messageQueue = << >>
    /\ socket > 1

\* Sockets other than the current one whose close notification is still to come;
\* each of them restarts the retry period when it arrives.
LateClosers == { s \in 1..Len(socks) : s # socket /\ socks[s].state # "CLOSED" }
\* The close notification of the current socket, which had opened and which
\* disconnect() closed, has just been handled, and the clock and the socket
\* bound leave room for the retry that follows.
DisconnectedAndClosed(n) ==
    /\ last.op = "onClose" /\ last.sock = socket /\ socket = n
    /\ socks[n].opened /\ socks[n].closeCalled
    /\ Len(socks) < MaxSockets
    /\ now + ReconnectIntervalMs * (1 + Cardinality(LateClosers)) <= MaxTimeMs

\* C28: the close notification that follows disconnect() arms the retry timer,
\* due one reconnect interval later, and with no further call needed the timer
\* eventually makes a new connection attempt, not before that interval is over.
C28_DisconnectIsNotPermanent ==
    /\ [][last'.op = "onClose" =>
            /\ ~connected'
            /\ \E t \in intervals' : /\ t.h = reconnectIntervalHandle'
                                     /\ t.due = now + ReconnectIntervalMs]_vars
    /\ \A n \in 1..MaxSockets :
          DisconnectedAndClosed(n) ~> (last.op = "tick" /\ socket > n)
    /\ [][last'.op = "tick" => \E t \in intervals : t.due <= now]_vars

\* The retry timer has made a new attempt after a disconnect() on a connected
\* client: the socket that was disconnected had opened and is closed.
C28_Witness ==
    /\ last.op = "tick" /\ socket = 2
    /\ socks[1].opened /\ socks[1].closeCalled /\ socks[1].state = "CLOSED"
    /\ socks[2].state = "CONNECTING"
    /\ now >= ReconnectIntervalMs

\* C31: at most one retry interval timer is armed at any time, and it is the
\* one whose handle the client stores; right after an init() call exactly one
\* is armed, due one reconnect interval after the call.
C31_AtMostOneRetryTimer ==
    /\ Cardinality(intervals) <= 1
    /\ \A t \in intervals : t.h = reconnectIntervalHandle
    /\ last.op = "init" =>
          intervals = { [h |-> reconnectIntervalHandle, due |-> now + ReconnectIntervalMs] }

\* init() on a client that already holds a socket, a reconnect interval or more
\* after the start: exactly one timer is armed.
C31_Witness ==
    /\ last.op = "init" /\ socket >= 2
    /\ now >= ReconnectIntervalMs
    /\ Cardinality(intervals) = 1
    /\ \A s \in 1..(socket - 1) : ~socks[s].opened /\ ~socks[s].errored
====
